---------------------------- MODULE Spec2Model ----------------------------
(***************************************************************************)
(* Model of stripe_server.py: the Flask routes /create-checkout-session    *)
(* and /webhook, the payment reconciliation handler, coupon detection,     *)
(* license tiering and the sale registration call.                         *)
(*                                                                         *)
(* JSON values are tagged records.  A key that is missing from a JSON      *)
(* object is Absent, a key whose value is null is Null.  Python's          *)
(* dict.get(k) maps Absent to None (Null); dict.get(k, d) maps Absent to  *)
(* d and leaves Null alone.                                                *)
(***************************************************************************)
EXTENDS Integers, Sequences, FiniteSets

VARIABLES
    pc,            \* position of the request being served: "idle" between requests
    req,           \* the request being served, or the last one served
    resp,          \* the response to the last request served
    loc,           \* locals of handle_successful_payment / detect_coupon_code
    handled,       \* calls of handle_successful_payment made for req
    stripe_calls,  \* provider calls made for req, in order, with their answers
    gs_calls,      \* params of every requests.get to GOOGLE_SCRIPT_URL in the window
    answered,      \* statuses answered to the webhook deliveries of the window
    tier           \* last evaluation of get_licenses_quantity: <<amount, qty>>

vars == <<pc, req, resp, loc, handled, stripe_calls, gs_calls, answered, tier>>

----------------------------------------------------------------------------
(* Bounds of the model *)

MaxCodeLen == 3      \* longest referral code of a checkout request
MaxDiscounts == 2    \* longest session["discounts"] list
MaxExpanded == 2     \* longest total_details.breakdown.discounts list
MaxDeliveries == 2   \* deliveries of one event in the redelivery specification
MaxAmount == 15100   \* amounts -MaxAmount..MaxAmount in the tiering specification

----------------------------------------------------------------------------
(* JSON / Python values *)

Absent == [t |-> "absent"]
Null == [t |-> "null"]
Str(s) == [t |-> "str", s |-> s]
Txt(cs) == [t |-> "txt", cs |-> cs]   \* a str the code edits: a sequence of characters
Num(n) == [t |-> "int", n |-> n]
List(xs) == [t |-> "list", items |-> xs]
Bool(b) == [t |-> "bool", b |-> b]

\* dict.get(key)
Get(v) == IF v = Absent THEN Null ELSE v

\* dict.get(key, default)
GetD(v, d) == IF v = Absent THEN d ELSE v

\* Python truth value of a JSON value
Truthy(v) ==
    CASE v.t = "absent" -> FALSE
      [] v.t = "null" -> FALSE
      [] v.t = "str" -> v.s # ""
      [] v.t = "txt" -> v.cs # <<>>
      [] v.t = "int" -> v.n # 0
      [] v.t = "bool" -> v.b
      [] v.t = "list" -> v.items # <<>>
      [] OTHER -> TRUE

\* a or b
Or(a, b) == IF Truthy(a) THEN a ELSE b

\* Strings that the code edits are sequences of one-character strings.
Whitespace == {" "}

UpperChar(c) == IF c = "a" THEN "A" ELSE IF c = "e" THEN "E" ELSE c

LowerChar(c) ==
    CASE c = "E" -> "e"
      [] c = "S" -> "s"
      [] c = "B" -> "b"
      [] OTHER -> c

\* str.upper()
Upper(s) == [i \in 1..Len(s) |-> UpperChar(s[i])]

\* str.lower()
Lower(s) == [i \in 1..Len(s) |-> LowerChar(s[i])]

RECURSIVE LStrip(_)
LStrip(s) == IF s # <<>> /\ Head(s) \in Whitespace THEN LStrip(Tail(s)) ELSE s

RECURSIVE RStrip(_)
RStrip(s) ==
    IF s # <<>> /\ s[Len(s)] \in Whitespace
    THEN RStrip(SubSeq(s, 1, Len(s) - 1))
    ELSE s

\* str.strip()
Strip(s) == RStrip(LStrip(s))

\* All sequences over S of length at most n
RECURSIVE SeqsUpTo(_, _)
SeqsUpTo(S, n) ==
    IF n = 0 THEN {<<>>}
    ELSE LET shorter == SeqsUpTo(S, n - 1)
         IN shorter \cup {Append(s, x) : s \in {q \in shorter : Len(q) = n - 1}, x \in S}

----------------------------------------------------------------------------
(* Catalog and tiering tables *)

PRICE_MAP ==
    [p \in {"1", "2", "3"} |->
        CASE p = "1" -> "price_1ST2Cg2KiTHorHsUc2nE0SEh"
          [] p = "2" -> "price_1ST2Da2KiTHorHsUpkfJ0BJn"
          [] p = "3" -> "price_1ST2E32KiTHorHsULapHHGRG"]

PLAN_NAMES ==
    [p \in {"1", "2", "3"} |->
        CASE p = "1" -> [en |-> "Nexus Copier - Starter (1 Account)",
                         es |-> "Nexus Copier - Starter (1 Cuenta)"]
          [] p = "2" -> [en |-> "Nexus Copier - Pro (2 Accounts)",
                         es |-> "Nexus Copier - Pro (2 Cuentas)"]
          [] p = "3" -> [en |-> "Nexus Copier - Business (3 Accounts)",
                         es |-> "Nexus Copier - Business (3 Cuentas)"]]

LICENSES_BY_AMOUNT == << <<14900, 3>>, <<8900, 2>>, <<5900, 1>> >>

\* MeetsThreshold with the fault of a strict comparison
MeetsThresholdStrict(amount_cents, threshold) == amount_cents > threshold

\* amount_cents >= threshold
MeetsThreshold(amount_cents, threshold) == amount_cents >= threshold

RECURSIVE FirstBand(_, _)
FirstBand(amount_cents, k) ==
    IF k > Len(LICENSES_BY_AMOUNT) THEN 1
    ELSE IF MeetsThreshold(amount_cents, LICENSES_BY_AMOUNT[k][1])
         THEN LICENSES_BY_AMOUNT[k][2]
         ELSE FirstBand(amount_cents, k + 1)

get_licenses_quantity(amount_cents) == FirstBand(amount_cents, 1)

----------------------------------------------------------------------------
(* Responses.  An exception that leaves a view function is answered by     *)
(* Flask with status 500.                                                  *)

Response(status, body) == [status |-> status, body |-> body]

Unhandled(exc) == Response(500, exc)

NoResponse == Response(0, "")

\* no handler has locals
NoLocals ==
    [session_id |-> Null, plan_name |-> Null, email |-> Null, name |-> Null,
     amount |-> Null, licenses_qty |-> 0, referral_code |-> Null, discounts |-> Null,
     i |-> 0, coupon_code |-> Null, affiliate_code |-> Null, success |-> Null]

----------------------------------------------------------------------------
(* POST /create-checkout-session *)

\* request.get_json() or {}
JsonOrEmpty(body) ==
    IF Truthy(body) THEN body
    ELSE [t |-> "dict", plan |-> Absent, lang |-> Absent, referral_code |-> Absent]

\* lang not in ["es", "en"] -> "en"
NormalLang(lang) ==
    IF lang \notin {<<"e", "s">>, <<"e", "n">>} THEN "en"
    ELSE IF lang = <<"e", "s">> THEN "es" ELSE "en"

\* plan in PRICE_MAP, for a hashable plan
InPriceMap(plan) == plan.t = "str" /\ plan.s \in DOMAIN PRICE_MAP

\* hash(plan) raises TypeError for a list or a dict
Hashable(plan) == plan.t \notin {"list", "dict"}

\* CleanCode with the fault of a missing strip()
CleanCodeNoStrip(referral_code) == Upper(referral_code)

\* referral_code.strip().upper()
CleanCode(referral_code) == Upper(Strip(referral_code))

\* the metadata dict of lines 101-112; the second component tells whether
\* building it raised (referral_code.strip on a value that is no str)
BuildMetadata(plan, lang, referral_code) ==
    LET base == [plan |-> Str(plan),
                 plan_name |-> Str(PLAN_NAMES[plan][lang]),
                 lang |-> Str(lang),
                 source |-> Str("website"),
                 referral_code |-> Absent,
                 is_referral |-> Absent]
    IN IF ~Truthy(referral_code) THEN [raised |-> FALSE, metadata |-> base]
       ELSE IF referral_code.t # "txt" THEN [raised |-> TRUE, metadata |-> base]
       ELSE IF Strip(referral_code.cs) # <<>>
            THEN [raised |-> FALSE,
                  metadata |-> [base EXCEPT
                      !.referral_code = Txt(CleanCode(referral_code.cs)),
                      !.is_referral = Str("true")]]
            ELSE [raised |-> FALSE, metadata |-> base]

\* the keyword arguments of stripe.checkout.Session.create that vary
CreateParams(plan, lang, metadata) ==
    [price |-> PRICE_MAP[plan],
     lang_prefix |-> IF lang = "es" THEN "/es" ELSE "",
     locale |-> IF lang = "es" THEN "es" ELSE "en",
     metadata |-> metadata]

\* The view function: the response and the provider calls it made.
\* create_answer is what stripe.checkout.Session.create does if it is called.
create_checkout_session(method, body, create_answer) ==
    IF method = "OPTIONS" THEN [resp |-> Response(200, ""), calls |-> <<>>]
    ELSE
    LET data == JsonOrEmpty(body)
        plan == Get(data.plan)
        lang_or == Or(Get(data.lang), Txt(<<>>))
        referral_code == Get(data.referral_code)
    IN IF lang_or.t # "txt"
       THEN [resp |-> Unhandled("AttributeError"), calls |-> <<>>]
       ELSE
       LET lang == NormalLang(Lower(lang_or.cs))
       IN IF ~Hashable(plan)
          THEN [resp |-> Unhandled("TypeError"), calls |-> <<>>]
          ELSE IF ~InPriceMap(plan)
          THEN [resp |-> Response(400, "Plan invalido"), calls |-> <<>>]
          ELSE
          LET built == BuildMetadata(plan.s, lang, referral_code)
              call == [api |-> "checkout.Session.create",
                       arg |-> CreateParams(plan.s, lang, built.metadata),
                       answer |-> create_answer]
          IN IF built.raised
             THEN [resp |-> Response(500, "AttributeError"), calls |-> <<>>]
             ELSE IF create_answer.t = "error"
             THEN [resp |-> Response(500, "StripeError"), calls |-> <<call>>]
             ELSE [resp |-> Response(200, "sessionId"), calls |-> <<call>>]

CodeChars == {" ", "a", "B"}

Plans ==
    {Absent, Null, Str("1"), Str("2"), Str("3"), Str("9"), Str(""), Num(1),
     List(<<Str("1")>>)}

Langs ==
    {Absent, Null, Txt(<<"e", "s">>), Txt(<<"E", "S">>), Txt(<<"e", "n">>),
     Txt(<<"f", "r">>), Num(5)}

ReferralCodes ==
    {Absent, Null, Num(0), Num(7)} \cup {Txt(s) : s \in SeqsUpTo(CodeChars, MaxCodeLen)}

CheckoutBodies ==
    {Null} \cup [t : {"dict"}, plan : Plans, lang : Langs, referral_code : ReferralCodes]

CreateAnswers == {[t |-> "session", id |-> "cs_test_1"], [t |-> "error"]}

CreateCheckoutSession ==
    /\ pc = "idle"
    /\ \E method \in {"POST", "OPTIONS"}, body \in CheckoutBodies, ans \in CreateAnswers :
         LET out == create_checkout_session(method, body, ans)
         IN /\ req' = [route |-> "/create-checkout-session", method |-> method,
                       body |-> body]
            /\ resp' = out.resp
            /\ stripe_calls' = out.calls
    /\ pc' = "done"
    /\ UNCHANGED <<loc, handled, gs_calls, answered, tier>>

----------------------------------------------------------------------------
(* The tiering function on its own *)

Amounts == (0 - MaxAmount)..MaxAmount

\* tier = <<amount, 0>>: the amount is chosen and the function not yet applied
GetLicensesQuantity ==
    /\ tier[2] = 0
    /\ tier' = <<tier[1], get_licenses_quantity(tier[1])>>
    /\ UNCHANGED <<pc, req, resp, loc, handled, stripe_calls, gs_calls, answered>>

----------------------------------------------------------------------------
(* POST /webhook: signature verification and routing *)

\* VerificationRaises with the fault of a missing second except clause
VerificationRaisesOnlySignature(sig) == sig = "SignatureVerificationError"

\* stripe.Webhook.construct_event raised (either except clause of the try)
VerificationRaises(sig) == sig # "valid"

\* the response of the two except clauses
InvalidResponse(sig) ==
    IF sig = "SignatureVerificationError"
    THEN Response(400, "Invalid signature")
    ELSE Response(400, sig)

----------------------------------------------------------------------------
(* handle_successful_payment, up to the call of detect_coupon_code *)

EmptyMetadata ==
    [t |-> "dict", plan |-> Absent, plan_name |-> Absent, referral_code |-> Absent]

EmptyCustomerDetails == [t |-> "dict", email |-> Absent, name |-> Absent]

\* session.get(key) or {}
DictOr(v, empty) == IF v.t = "dict" THEN v ELSE empty

\* amount_cents / 100, kept exact as units and hundredths
Div100(n) == [units |-> n \div 100, cents |-> n % 100]

\* lines 190-203 and 215: the locals, or the exception that an operand of the
\* wrong type raises (None / 100, None.upper())
Extract(session) ==
    LET session_id == GetD(session.id, Str("unknown"))
        metadata == DictOr(Get(session.metadata), EmptyMetadata)
        plan == GetD(metadata.plan, Str("1"))
        plan_name == GetD(metadata.plan_name, Str("Plan " \o plan.s))
        customer_details == DictOr(Get(session.customer_details), EmptyCustomerDetails)
        email == Get(customer_details.email)
        name == GetD(customer_details.name, Str("Customer"))
        amount_cents == GetD(session.amount_total, Num(0))
        currency == GetD(session.currency, Str("usd"))
    IN IF amount_cents.t # "int" THEN [raised |-> TRUE, exc |-> "TypeError"]
       ELSE IF currency.t # "str" THEN [raised |-> TRUE, exc |-> "AttributeError"]
       ELSE [raised |-> FALSE,
             loc |-> [session_id |-> session_id,
                      plan_name |-> plan_name,
                      email |-> email,
                      name |-> name,
                      amount |-> Div100(amount_cents.n),
                      licenses_qty |-> get_licenses_quantity(amount_cents.n),
                      referral_code |-> Get(metadata.referral_code),
                      discounts |-> Get(session.discounts),
                      i |-> 1,
                      coupon_code |-> Null,
                      affiliate_code |-> Null,
                      success |-> Null]]

\* Affiliate with the fault of the operands swapped: the coupon takes precedence
AffiliateCouponFirst(referral_code, coupon_code) == Or(coupon_code, referral_code)

\* affiliate_code = referral_code or coupon_code
Affiliate(referral_code, coupon_code) == Or(referral_code, coupon_code)

\* if email:
HasEmail(email) == Truthy(email)

\* lines 217-240 once detect_coupon_code has returned coupon_code: either the
\* registration call is next, or the handler returns and webhook answers 200
AfterDetect(l, coupon_code) ==
    LET l2 == [l EXCEPT !.coupon_code = coupon_code,
                        !.affiliate_code = Affiliate(l.referral_code, coupon_code)]
    IN IF HasEmail(l2.email)
       THEN [pc |-> "register", resp |-> NoResponse, loc |-> l2]
       ELSE [pc |-> "done", resp |-> Response(200, ""), loc |-> l2]

----------------------------------------------------------------------------
(* detect_coupon_code *)

\* NeedsExpanded with the fault of a missing test: the session is always fetched again
NeedsExpandedAlways(coupon_code) == TRUE

\* if not coupon_code:
NeedsExpanded(coupon_code) == ~Truthy(coupon_code)

\* line 259 on: the second lookup, or the return of coupon_code
AfterDirect(l, coupon_code) ==
    IF NeedsExpanded(coupon_code)
    THEN [pc |-> "expanded", resp |-> NoResponse,
          loc |-> [l EXCEPT !.coupon_code = coupon_code]]
    ELSE AfterDetect(l, coupon_code)

\* lines 245-248: the first lookup runs when session.get("discounts") is truthy
DetectStart(l) ==
    IF Truthy(l.discounts)
    THEN [pc |-> "discounts", resp |-> NoResponse, loc |-> l]
    ELSE AfterDirect(l, Null)

\* one pass of the loop of lines 250-254, with the provider's answer to
\* stripe.Discount.retrieve(discount_id); an exception ends the loop (line 255)
DirectStep(l, answer) ==
    IF answer.t = "error" THEN AfterDirect(l, Null)
    ELSE IF Truthy(answer) /\ Truthy(answer.coupon)
         THEN AfterDirect(l, Or(answer.coupon.name, answer.coupon.id))
         ELSE IF l.i < Len(l.discounts.items)
              THEN [pc |-> "discounts", resp |-> NoResponse,
                    loc |-> [l EXCEPT !.i = l.i + 1]]
              ELSE AfterDirect(l, Null)

\* lines 267-272 for one entry d: its coupon's name, else its id, else nothing
ExpandedPick(d) ==
    IF Truthy(Get(d.name)) THEN d.name
    ELSE IF Truthy(Get(d.id)) THEN d.id ELSE Null

RECURSIVE FirstExpanded(_, _)
FirstExpanded(discounts, k) ==
    IF k > Len(discounts) THEN Null
    ELSE IF Truthy(ExpandedPick(discounts[k])) THEN ExpandedPick(discounts[k])
         ELSE FirstExpanded(discounts, k + 1)

\* lines 260-274 with the provider's answer to stripe.checkout.Session.retrieve:
\* a provider error, or an AttributeError on a null total_details, is caught
ExpandedCoupon(answer) ==
    IF answer.t = "error" THEN Null
    ELSE IF answer.total_details.t # "dict" THEN Null
    ELSE FirstExpanded(answer.total_details.breakdown_discounts, 1)

----------------------------------------------------------------------------
(* register_sale_in_google_script *)

GOOGLE_SCRIPT_TOKEN == "nexus_secure_live_202X"

\* lines 285-297
RegistrationParams(l) ==
    [action |-> "register_sale",
     token |-> GOOGLE_SCRIPT_TOKEN,
     email |-> l.email,
     name |-> l.name,
     qty |-> l.licenses_qty,
     session_id |-> l.session_id,
     amount |-> l.amount,
     plan |-> l.plan_name,
     affiliate |-> IF Truthy(l.affiliate_code) THEN l.affiliate_code ELSE Absent]

\* StatusOk with the fault of accepting every status below 300
StatusOkAny2xx(status_code) == status_code < 300

\* if response.status_code == 200:
StatusOk(status_code) == status_code = 200

\* lines 314-336: the return value for what requests.get did.  A body that
\* response.json() rejects, or whose value has no .get, reaches the bare except.
RegisterResult(answer) ==
    IF answer.t # "response" THEN FALSE
    ELSE IF StatusOk(answer.status_code)
         THEN IF answer.json = "object"
              THEN Truthy(Get(answer.success))
              ELSE answer.text_has_success
         ELSE FALSE

----------------------------------------------------------------------------
(* The webhook view function, one step per outbound call *)

\* lines 158-180 and the start of handle_successful_payment
WebhookStart(payload, sig) ==
    IF VerificationRaises(sig)
    THEN [pc |-> "done", resp |-> InvalidResponse(sig), loc |-> NoLocals, handled |-> 0]
    ELSE IF payload.type = "checkout.session.completed"
         THEN LET x == Extract(payload.object)
              IN IF x.raised
                 THEN [pc |-> "done", resp |-> Unhandled(x.exc), loc |-> NoLocals,
                       handled |-> 1]
                 ELSE LET n == DetectStart(x.loc)
                      IN [pc |-> n.pc, resp |-> n.resp, loc |-> n.loc, handled |-> 1]
         ELSE [pc |-> "done", resp |-> Response(200, ""), loc |-> NoLocals,
               handled |-> 0]

\* the step taken: the next position, and the status once the response is sent
Advance(n) ==
    /\ pc' = n.pc
    /\ resp' = n.resp
    /\ loc' = n.loc
    /\ answered' = IF n.pc = "done" THEN Append(answered, n.resp.status) ELSE answered

WebhookOf(payload, sig) ==
    LET n == WebhookStart(payload, sig)
    IN /\ req' = [route |-> "/webhook", method |-> "POST", payload |-> payload,
                  sig |-> sig]
       /\ handled' = n.handled
       /\ stripe_calls' = <<>>
       /\ Advance(n)
       /\ UNCHANGED <<gs_calls, tier>>

DiscountIds == <<"di_1", "di_2", "di_3", "di_4">>

DiscountLists ==
    {Absent, List(<<>>)} \cup
    {List([k \in 1..n |-> Str(DiscountIds[k])]) : n \in 1..MaxDiscounts}

Metadatas ==
    {Null,
     EmptyMetadata,
     [t |-> "dict", plan |-> Str("2"), plan_name |-> Str("Nexus Copier - Pro (2 Accounts)"),
      referral_code |-> Absent],
     [t |-> "dict", plan |-> Str("2"), plan_name |-> Str("Nexus Copier - Pro (2 Accounts)"),
      referral_code |-> Str("PARTNER")]}

CustomerDetails ==
    {Absent, Null,
     [t |-> "dict", email |-> Null, name |-> Str("Ann")],
     [t |-> "dict", email |-> Str(""), name |-> Str("Ann")],
     [t |-> "dict", email |-> Str("ann@example.com"), name |-> Str("Ann")],
     [t |-> "dict", email |-> Str("ann@example.com"), name |-> Absent]}

AmountTotals == {Absent, Null, Num(8900), Num(14900)}

Currencies == {Absent, Null, Str("usd")}

Sessions ==
    [id : {Str("cs_test_1")}, metadata : Metadatas, customer_details : CustomerDetails,
     amount_total : AmountTotals, currency : Currencies, discounts : DiscountLists]

EventTypes == {"checkout.session.completed", "payment_intent.succeeded"}

Payloads == [type : EventTypes, object : Sessions]

Signatures == {"valid", "SignatureVerificationError", "ValueError"}

Coupons ==
    {[t |-> "coupon", name |-> Str("SAVE10"), id |-> Str("co_1")],
     [t |-> "coupon", name |-> Null, id |-> Str("co_2")]}

DiscountAnswers ==
    {[t |-> "error"], [t |-> "discount", coupon |-> Null]} \cup
    {[t |-> "discount", coupon |-> c] : c \in Coupons}

ExpandedEntries ==
    {[name |-> Absent, id |-> Absent],
     [name |-> Str("SAVE10"), id |-> Str("co_1")],
     [name |-> Null, id |-> Str("co_2")]}

ExpandedAnswers ==
    {[t |-> "error"], [t |-> "session", total_details |-> Null]} \cup
    {[t |-> "session", total_details |-> [t |-> "dict", breakdown_discounts |-> ds]] :
        ds \in SeqsUpTo(ExpandedEntries, MaxExpanded)}

ResponseBodies ==
    {[json |-> "object", success |-> Bool(TRUE), text_has_success |-> TRUE],
     [json |-> "object", success |-> Bool(FALSE), text_has_success |-> TRUE],
     [json |-> "object", success |-> Str("no"), text_has_success |-> TRUE],
     [json |-> "object", success |-> Absent, text_has_success |-> FALSE],
     [json |-> "other", success |-> Absent, text_has_success |-> TRUE],
     [json |-> "other", success |-> Absent, text_has_success |-> FALSE],
     [json |-> "invalid", success |-> Absent, text_has_success |-> TRUE],
     [json |-> "invalid", success |-> Absent, text_has_success |-> FALSE]}

RegAnswers ==
    {[t |-> "timeout"], [t |-> "exception"]} \cup
    {[t |-> "response", status_code |-> 200, json |-> b.json, success |-> b.success,
      text_has_success |-> b.text_has_success] : b \in ResponseBodies} \cup
    {[t |-> "response", status_code |-> c, json |-> "object", success |-> Bool(TRUE),
      text_has_success |-> TRUE] : c \in {204, 500}}

\* a webhook delivery arrives
Webhook ==
    /\ pc = "idle"
    /\ \E payload \in Payloads, sig \in Signatures : WebhookOf(payload, sig)

\* stripe.Discount.retrieve(discount_id) is called and answers
DiscountRetrieve ==
    /\ pc = "discounts"
    /\ \E answer \in DiscountAnswers :
         /\ stripe_calls' = Append(stripe_calls,
                [api |-> "Discount.retrieve", arg |-> loc.discounts.items[loc.i],
                 answer |-> answer])
         /\ Advance(DirectStep(loc, answer))
    /\ UNCHANGED <<req, handled, gs_calls, tier>>

\* stripe.checkout.Session.retrieve(session["id"], expand=[...]) is called and answers
SessionRetrieveExpanded ==
    /\ pc = "expanded"
    /\ \E answer \in ExpandedAnswers :
         /\ stripe_calls' = Append(stripe_calls,
                [api |-> "checkout.Session.retrieve", arg |-> req.payload.object.id,
                 answer |-> answer])
         /\ Advance(AfterDetect(loc, ExpandedCoupon(answer)))
    /\ UNCHANGED <<req, handled, gs_calls, tier>>

\* requests.get(GOOGLE_SCRIPT_URL, params=params, timeout=30) is called and answers;
\* handle_successful_payment returns and webhook answers 200
RegisterSale ==
    /\ pc = "register"
    /\ \E answer \in RegAnswers :
         /\ gs_calls' = Append(gs_calls, RegistrationParams(loc))
         /\ Advance([pc |-> "done", resp |-> Response(200, ""),
                     loc |-> [loc EXCEPT !.success = [t |-> "returned",
                                                      value |-> RegisterResult(answer),
                                                      answer |-> answer]]])
    /\ UNCHANGED <<req, handled, stripe_calls, tier>>

----------------------------------------------------------------------------

NoRequest == [route |-> "", method |-> "", body |-> Null]

Init ==
    /\ pc = "idle"
    /\ req = NoRequest
    /\ resp = NoResponse
    /\ loc = NoLocals
    /\ handled = 0
    /\ stripe_calls = <<>>
    /\ gs_calls = <<>>
    /\ answered = <<>>
    /\ tier = <<0, 0>>

\* The response is sent and the request is over.  Nothing of it is kept by the
\* server (the module has no mutable globals): the next request starts from
\* the state after construction, and the record of the calls made is cleared.
Forget ==
    /\ pc = "done"
    /\ pc' = "idle"
    /\ req' = NoRequest
    /\ resp' = NoResponse
    /\ loc' = NoLocals
    /\ handled' = 0
    /\ stripe_calls' = <<>>
    /\ gs_calls' = <<>>
    /\ answered' = <<>>
    /\ UNCHANGED tier

Next ==
    \/ CreateCheckoutSession
    \/ Webhook
    \/ DiscountRetrieve
    \/ SessionRetrieveExpanded
    \/ RegisterSale
    \/ Forget

Spec == Init /\ [][Next]_vars

----------------------------------------------------------------------------
(* Redelivery: the provider delivers one verified checkout.session.completed *)
(* event, with a customer email, up to MaxDeliveries times.  The record of   *)
(* the registration calls and of the statuses answered spans the deliveries. *)

RedeliveredSessions ==
    {s \in Sessions :
        /\ s.customer_details.t = "dict"
        /\ Truthy(s.customer_details.email)
        /\ s.customer_details.name # Absent
        /\ s.metadata # Null
        /\ s.currency # Absent
        /\ s.discounts # List(<<>>)}

FirstDelivery ==
    /\ pc = "idle"
    /\ \E session \in RedeliveredSessions :
         WebhookOf([type |-> "checkout.session.completed", object |-> session], "valid")

Redeliver ==
    /\ pc = "done"
    /\ Len(answered) < MaxDeliveries
    /\ WebhookOf(req.payload, req.sig)

NextRedelivery ==
    \/ FirstDelivery
    \/ Redeliver
    \/ DiscountRetrieve
    \/ SessionRetrieveExpanded
    \/ RegisterSale

SpecRedelivery == Init /\ [][NextRedelivery]_vars

----------------------------------------------------------------------------

InitTiering ==
    /\ pc = "idle"
    /\ req = NoRequest
    /\ resp = NoResponse
    /\ loc = NoLocals
    /\ handled = 0
    /\ stripe_calls = <<>>
    /\ gs_calls = <<>>
    /\ answered = <<>>
    /\ tier \in {<<amount_cents, 0>> : amount_cents \in Amounts}

NextTiering == GetLicensesQuantity

SpecTiering == InitTiering /\ [][NextTiering]_vars

----------------------------------------------------------------------------
(* What the claims speak of, read off the request and the calls recorded *)

IsWebhook == req.route = "/webhook"

IsCheckoutPost == req.route = "/create-checkout-session" /\ req.method = "POST"

Verified == IsWebhook /\ req.sig = "valid"

IsCompletedEvent == IsWebhook /\ req.payload.type = "checkout.session.completed"

\* the customer email of the delivered session, None when there is none
SessionEmail ==
    LET cd == req.payload.object.customer_details
    IN IF cd.t = "dict" /\ cd.email.t = "str" THEN cd.email ELSE Null

\* the referral code in the delivered session's metadata, None when there is none
SessionReferral ==
    LET md == req.payload.object.metadata
    IN IF md.t = "dict" /\ md.referral_code.t = "str" THEN md.referral_code ELSE Null

CallsOf(api) == SelectSeq(stripe_calls, LAMBDA c : c.api = api)

----------------------------------------------------------------------------
(* C1: a webhook request whose signature verification fails is answered 400, *)
(* handle_successful_payment is not invoked, and no provider retrieval and   *)
(* no registration call is made for it.                                      *)
C1_InvalidSignatureRejected ==
    (IsWebhook /\ req.sig # "valid") =>
        /\ pc = "done"
        /\ resp.status = 400
        /\ handled = 0
        /\ stripe_calls = <<>>
        /\ gs_calls = <<>>

\* a completed-session payload with an email and discounts, rejected for a payload
\* error that is no SignatureVerificationError
C1_Witness ==
    /\ IsCompletedEvent
    /\ req.sig = "ValueError"
    /\ Truthy(SessionEmail)
    /\ Truthy(req.payload.object.discounts)
    /\ req.payload.object.amount_total = Num(14900)
    /\ pc = "done"
    /\ resp.status = 400

(* C2: every verified webhook request is answered 200 whatever the event     *)
(* type and the session object; a checkout.session.completed event invokes   *)
(* handle_successful_payment exactly once, any other type invokes nothing    *)
(* and makes no outbound call.                                               *)
C2_VerifiedAlways200 ==
    (Verified /\ pc = "done") =>
        /\ resp.status = 200
        /\ IsCompletedEvent => handled = 1
        /\ ~IsCompletedEvent => (handled = 0 /\ stripe_calls = <<>> /\ gs_calls = <<>>)

(* C3: a completed session without a customer email (customer_details        *)
(* missing, null, or without a non-empty email) causes no registration call  *)
(* and no unhandled error: the webhook request ends with 200.                *)
C3_NoEmailNoCallNoError ==
    (Verified /\ IsCompletedEvent /\ ~Truthy(SessionEmail)) =>
        /\ gs_calls = <<>>
        /\ pc # "register"
        /\ pc = "done" => resp.status = 200

----------------------------------------------------------------------------
\* the registration call of this request has returned
Registered == IsWebhook /\ pc = "done" /\ loc.success.t = "returned"

\* C4 as stated: timeout, non-200 status, a body that is not JSON, JSON without
\* a true success flag, any other request exception
ListedFailure(answer) ==
    \/ answer.t \in {"timeout", "exception"}
    \/ /\ answer.t = "response"
       /\ \/ answer.status_code # 200
          \/ answer.json = "invalid"
          \/ answer.success # Bool(TRUE)

\* C4 as amended: the body counts as a failure when it is a JSON object whose
\* success flag is missing or falsy, or when it is no JSON object (no JSON, or
\* JSON of another type) and its text does not contain "success"
ActualFailure(answer) ==
    \/ answer.t \in {"timeout", "exception"}
    \/ /\ answer.t = "response"
       /\ \/ answer.status_code # 200
          \/ answer.json = "object" /\ answer.success \in {Absent, Null, Bool(FALSE)}
          \/ answer.json # "object" /\ ~answer.text_has_success

(* C4 (original statement): when the registration call fails in a listed way, *)
(* register_sale_in_google_script returns False, the collaborator was called  *)
(* exactly once for the delivery and the webhook answers 200.                 *)
C4_Original ==
    (Registered /\ ListedFailure(loc.success.answer)) =>
        /\ loc.success.value = FALSE
        /\ Len(gs_calls) = 1
        /\ resp.status = 200

(* C4 (amended): the same, where a failing body is a JSON object whose        *)
(* success flag is missing or falsy, or a body that is no JSON object and     *)
(* does not contain the text "success"; every other answer returns True.      *)
C4_ForwardingFailureNonFatal ==
    Registered =>
        /\ loc.success.value = ~ActualFailure(loc.success.answer)
        /\ Len(gs_calls) = 1
        /\ resp.status = 200

C4_Witness ==
    /\ Registered
    /\ loc.success.answer.t = "response"
    /\ loc.success.answer.status_code = 200
    /\ loc.success.answer.json = "invalid"
    /\ ~loc.success.answer.text_has_success
    /\ loc.success.value = FALSE
    /\ resp.status = 200

----------------------------------------------------------------------------
(* C5: the affiliate forwarded in the registration record is the metadata    *)
(* referral code whenever there is one, also when a coupon was detected; the *)
(* detected coupon when the metadata has no referral code; and the affiliate *)
(* parameter is left out when neither source yields a value.                 *)
C5_AffiliatePrecedence ==
    (IsWebhook /\ gs_calls # <<>>) =>
        LET sent == gs_calls[Len(gs_calls)].affiliate
        IN /\ Truthy(SessionReferral) => sent = SessionReferral
           /\ (~Truthy(SessionReferral) /\ Truthy(loc.coupon_code)) =>
                 sent = loc.coupon_code
           /\ (~Truthy(SessionReferral) /\ ~Truthy(loc.coupon_code)) => sent = Absent

C5_Witness ==
    /\ IsWebhook
    /\ gs_calls # <<>>
    /\ SessionReferral = Str("PARTNER")
    /\ loc.coupon_code = Str("SAVE10")
    /\ gs_calls[1].affiliate = Str("PARTNER")

----------------------------------------------------------------------------
\* the plan of the posted body, Absent when the body has none
BodyPlan == IF req.body.t = "dict" THEN req.body.plan ELSE Absent

ValidPlans == {Str("1"), Str("2"), Str("3")}

(* C6: a POST /create-checkout-session whose plan is not "1", "2" or "3"     *)
(* (missing, not a string, with any lang and referral_code) is answered with *)
(* the invalid-plan error and status 400, and Session.create is not called.  *)
C6_InvalidPlanRejected ==
    (IsCheckoutPost /\ BodyPlan \notin ValidPlans) =>
        /\ resp = Response(400, "Plan invalido")
        /\ stripe_calls = <<>>

----------------------------------------------------------------------------
(* C7: get_licenses_quantity is total and follows the descending bands: 3    *)
(* from 14900 up, 2 from 8900 to 14899, 1 below 8900 (also below 5900, for   *)
(* zero and for negative amounts); the result is in {1, 2, 3} and does not   *)
(* decrease when the amount grows.                                           *)
C7_TieringBands ==
    /\ tier[2] = 0 => ENABLED GetLicensesQuantity
    /\ tier[2] # 0 =>
         /\ tier[1] >= 14900 => tier[2] = 3
         /\ (8900 <= tier[1] /\ tier[1] < 14900) => tier[2] = 2
         /\ tier[1] < 8900 => tier[2] = 1
         /\ tier[2] \in {1, 2, 3}
         /\ (tier[1] - 1) \in Amounts => get_licenses_quantity(tier[1] - 1) <= tier[2]

C7_Witness == tier = <<14900, 3>>

----------------------------------------------------------------------------
\* out is src without its leading and trailing whitespace, in upper case
IsTrimmedUpper(src, out) ==
    \E i, j \in 1..Len(src) :
        /\ src[i] \notin Whitespace
        /\ src[j] \notin Whitespace
        /\ \A k \in 1..Len(src) : (k < i \/ k > j) => src[k] \in Whitespace
        /\ Len(out) = j - i + 1
        /\ \A k \in 1..Len(out) :
              IF src[i + k - 1] = "a" THEN out[k] = "A" ELSE out[k] = src[i + k - 1]

\* the posted referral code is a string with a character that is no whitespace
NonBlank(code) == code.t = "txt" /\ \E k \in 1..Len(code.cs) : code.cs[k] \notin Whitespace

(* C8: for a valid-plan checkout request the metadata passed to              *)
(* Session.create holds referral_code, the request's code trimmed and        *)
(* upper-cased, and is_referral = "true" exactly when the request's code is  *)
(* not blank; for an absent, empty or whitespace-only code it holds neither. *)
C8_ReferralMetadata ==
    (IsCheckoutPost /\ BodyPlan \in ValidPlans) =>
        LET code == req.body.referral_code
            langOk == req.body.lang.t \in {"absent", "null", "txt"}
            codeOk == code.t \in {"absent", "null", "txt"} \/ code = Num(0)
        IN /\ (langOk /\ codeOk) => Len(stripe_calls) = 1
           /\ stripe_calls # <<>> =>
                LET md == stripe_calls[1].arg.metadata
                IN /\ md.plan = BodyPlan
                   /\ md.source = Str("website")
                   /\ NonBlank(code) =>
                        /\ md.is_referral = Str("true")
                        /\ md.referral_code.t = "txt"
                        /\ IsTrimmedUpper(code.cs, md.referral_code.cs)
                   /\ ~NonBlank(code) =>
                        /\ md.is_referral = Absent
                        /\ md.referral_code = Absent

C8_Witness ==
    /\ IsCheckoutPost
    /\ req.body.t = "dict"
    /\ req.body.referral_code = Txt(<<" ", "a", "B">>)
    /\ stripe_calls # <<>>
    /\ stripe_calls[1].arg.metadata.referral_code = Txt(<<"A", "B">>)
    /\ stripe_calls[1].arg.metadata.is_referral = Str("true")

----------------------------------------------------------------------------
\* detect_coupon_code has returned for this request
Detected == IsWebhook /\ handled = 1 /\ loc # NoLocals /\ pc \in {"register", "done"}

\* the coupon name-or-id of a Discount.retrieve answer, None when it has none
DirectFound(answer) ==
    IF answer.t = "discount" /\ answer.coupon # Null
    THEN IF answer.coupon.name # Null THEN answer.coupon.name ELSE answer.coupon.id
    ELSE Null

\* the result of the expanded lookup: the name, else the id, of the first entry
\* that has one of them; None on an error or when no entry has any
IsExpandedResult(answer, result) ==
    IF answer.t = "session" /\ answer.total_details # Null
    THEN LET ds == answer.total_details.breakdown_discounts
             has(k) == ds[k].name.t = "str" \/ ds[k].id.t = "str"
         IN \/ (\A k \in 1..Len(ds) : ~has(k)) /\ result = Null
            \/ \E k \in 1..Len(ds) :
                  /\ has(k)
                  /\ \A h \in 1..(k - 1) : ~has(h)
                  /\ result = IF ds[k].name.t = "str" THEN ds[k].name ELSE ds[k].id
    ELSE result = Null

(* C9: the discounts listed on the session are looked up first, in list      *)
(* order, and the first coupon name-or-id found is the result; the session   *)
(* is fetched again with the discounts expanded exactly when the direct      *)
(* lookup yielded nothing (no list, no coupon, or a lookup error), and then  *)
(* the first expanded discount with a coupon name, else id, is the result; a *)
(* provider error is absorbed: nothing is raised, and an error of the        *)
(* expanded lookup gives None.                                               *)
C9_CouponDetectionOrder ==
    Detected =>
        LET direct == CallsOf("Discount.retrieve")
            expanded == CallsOf("checkout.Session.retrieve")
            listed == IF req.payload.object.discounts.t = "list"
                      THEN req.payload.object.discounts.items ELSE <<>>
            n == Len(direct)
            found == IF n = 0 THEN Null ELSE DirectFound(direct[n].answer)
        IN /\ stripe_calls = direct \o expanded
           /\ n <= Len(listed)
           /\ \A k \in 1..n : direct[k].arg = listed[k]
           /\ \A k \in 1..(n - 1) : direct[k].answer = [t |-> "discount", coupon |-> Null]
           /\ (n < Len(listed)) =>
                 (found # Null \/ direct[n].answer.t = "error")
           /\ Len(expanded) = IF found = Null THEN 1 ELSE 0
           /\ found # Null => loc.coupon_code = found
           /\ found = Null =>
                 /\ expanded[1].arg = req.payload.object.id
                 /\ IsExpandedResult(expanded[1].answer, loc.coupon_code)
           /\ pc = "done" => resp.status = 200

C9_Witness ==
    /\ Detected
    /\ Len(stripe_calls) = 3
    /\ stripe_calls[1].answer = [t |-> "discount", coupon |-> Null]
    /\ stripe_calls[2].answer = [t |-> "error"]
    /\ stripe_calls[3].api = "checkout.Session.retrieve"
    /\ stripe_calls[3].answer.t = "session"
    /\ stripe_calls[3].answer.total_details # Null
    /\ stripe_calls[3].answer.total_details.breakdown_discounts =
          <<[name |-> Absent, id |-> Absent], [name |-> Null, id |-> Str("co_2")]>>
    /\ loc.coupon_code = Str("co_2")

----------------------------------------------------------------------------
(* C10: deliveries are not deduplicated: when the same verified              *)
(* checkout.session.completed event with a customer email has been delivered *)
(* n times, the registration collaborator has been called n times, each time *)
(* with the same record, and every delivery was answered 200.                *)
C10_EveryDeliveryForwarded ==
    (Verified /\ IsCompletedEvent /\ Truthy(SessionEmail) /\ pc = "done") =>
        /\ Len(gs_calls) = Len(answered)
        /\ \A k \in 1..Len(answered) : answered[k] = 200
        /\ \A j, k \in 1..Len(gs_calls) : gs_calls[j] = gs_calls[k]

\* the part of C10 that the code does satisfy: a delivery whose handler does not
\* raise is forwarded whatever was delivered before, with the same record up to
\* the affiliate that coupon detection yields
C10_NoDeduplication ==
    (Verified /\ IsCompletedEvent /\ Truthy(SessionEmail) /\ pc = "done"
        /\ req.payload.object.amount_total.t \in {"absent", "int"}
        /\ req.payload.object.currency.t \in {"absent", "str"}) =>
        /\ Len(gs_calls) = Len(answered)
        /\ \A k \in 1..Len(answered) : answered[k] = 200
        /\ \A j, k \in 1..Len(gs_calls) :
              [gs_calls[j] EXCEPT !.affiliate = Absent] =
              [gs_calls[k] EXCEPT !.affiliate = Absent]

============================================================================
